---- MODULE Spec2Model ----
(***************************************************************************)
(* Model of mapogolions/genserver: a server process (genserver.go) built   *)
(* on net/rpc's Client with an in-memory codec (two buffered channels),    *)
(* and the key-value handler of tests/kvstore_server_test.go.              *)
(*                                                                         *)
(* Units: producers (Cast/Call), closers (Close), the dispatch loop        *)
(* (genServerCodec.Listen) and the client's input goroutine (it calls      *)
(* ReadResponseHeader/ReadResponseBody and completes the pending calls).   *)
(***************************************************************************)
EXTENDS Integers, Sequences, FiniteSets, TLC

\* ---------------------------------------------------------------- bounds
MaxCalls == 3
InCap == 1
OutCap == 1
MaxHangCalls == 5
MaxCloseCalls == 2
MaxLifeCalls == 2
MaxMailCalls == 3
MaxReleaseCalls == 3
MaxSelfCalls == 2

Producers == {"p1", "p2"}
Closers == {"c1"}
AllClosers == {"c1", "c2"}
Keys == {"one", "two"}

\* ------------------------------------------------------------- constants
None == "none"
NoSeq == -1
Absent == -9
ZeroValue == 0

NoErr == "nil"
ErrShutdown == "connection is shut down"
ErrUnexpectedEOF == "unexpected EOF"
EOF == "EOF"
SendOnClosed == "send on closed channel"
ErrNotFound == "not found"
ErrKeyExists == "key already exists"
ErrKeyMissing == "key does not exist"
ErrInvalidArgs == "invalid arguments"
HandlerErrors == {ErrNotFound, ErrKeyExists, ErrKeyMissing, ErrInvalidArgs}

\* ---------------------------------------------------------------- values
\* an `any` value: its dynamic type and its content; NilValue is the nil any
NilValue == [t |-> "nil", val |-> ZeroValue]
IntValue(n) == [t |-> "int", val |-> n]

\* request bodies: a key (K) or a KeyValuePair[K, V]
KeyBody(k) == [t |-> "K", key |-> k, val |-> ZeroValue]
PairBody(k, v) == [t |-> "KVP", key |-> k, val |-> v]

\* reply destinations: nil, a pointer to an int or string variable, a nil
\* pointer of such a type, or a by-value int; val is the content of the
\* caller's variable (0 encodes the zero value of the type)
NilReply == [kind |-> "nil", elem |-> "nil", val |-> ZeroValue, null |-> TRUE]
PtrReply(ty) == [kind |-> "ptr", elem |-> ty, val |-> ZeroValue, null |-> FALSE]
ValReply(ty) == [kind |-> "val", elem |-> ty, val |-> ZeroValue, null |-> FALSE]
NilPtrReply(ty) == [kind |-> "ptr", elem |-> ty, val |-> ZeroValue, null |-> TRUE]

VARIABLES
    calls,      \* rpc.Call records in the order Cast/Call created them
    pc,         \* position of every producer
    cur,        \* the call a producer is submitting or waiting for
    reqMutex,   \* holder of rpc.Client.reqMutex
    seq,        \* rpc.Client.seq, the next sequence number
    pending,    \* rpc.Client.pending: the seqs registered (the call is CallOf(seq))
    closing,    \* rpc.Client.closing
    shutdown,   \* rpc.Client.shutdown
    requests,   \* genServerCodec.requests (buffer)
    reqClosed,  \* requests has been closed
    responses,  \* genServerCodec.responses (buffer)
    respClosed, \* responses has been closed
    current,    \* genServerCodec.current
    lpc,        \* position of every dispatch loop unit
    lreq,       \* request a dispatch loop has dequeued
    lres,       \* result of Handle a dispatch loop is about to enqueue
    store,      \* the handler's private state (dict.data)
    ipc,        \* position of the client's input goroutine
    ierr,       \* error that ended the input loop
    cpc,        \* position of every closer
    closeRet,   \* what Close returned to every closer
    crashed,    \* an unrecovered panic ended the program
    handled,    \* history: seq -> what Handle returned for that request
    faulted,    \* history: seqs whose Handle panicked
    logged,     \* history: number of crucial errors the loop logged
    inflight,   \* history: calls pending and enqueued when responses closed
    emitted,    \* history: the responses placed on the response channel
    dequeued,   \* history: the seqs of the requests the loop received
    stalled     \* history: calls blocked in the enqueue when Close was invoked

vars == <<calls, pc, cur, reqMutex, seq, pending, closing, shutdown, requests,
          reqClosed, responses, respClosed, current, lpc, lreq, lres, store,
          ipc, ierr, cpc, closeRet, crashed, handled, faulted, logged, inflight,
          emitted, dequeued, stalled>>

clientVars == <<seq, pending, closing, shutdown>>
chanVars == <<requests, reqClosed, responses, respClosed>>
loopVars == <<lpc, lreq, lres, store>>
inputVars == <<ipc, ierr, current>>
closeVars == <<cpc, closeRet>>
histVars == <<handled, faulted, logged, inflight, emitted, dequeued, stalled>>

\* ------------------------------------------------------- handler (kvstore)
EmptyStore == [k \in Keys |-> Absent]

\* dict.Get
Get(d, key) ==
    IF d[key] = Absent THEN [v |-> ZeroValue, err |-> ErrNotFound]
    ELSE [v |-> d[key], err |-> NoErr]

\* dict.Put
Put(d, key, value) ==
    IF d[key] # Absent THEN [d |-> d, err |-> ErrKeyExists]
    ELSE [d |-> [d EXCEPT ![key] = value], err |-> NoErr]

\* dict.Delete
Delete(d, key) ==
    IF d[key] = Absent THEN [v |-> ZeroValue, err |-> ErrKeyMissing]
    ELSE [v |-> d[key], err |-> NoErr]

Panic(d) == [panic |-> TRUE, v |-> NilValue, err |-> NoErr, d |-> d]
Return(v, err, d) == [panic |-> FALSE, v |-> v, err |-> err, d |-> d]

\* kvStoreServer.Handle: body.(K) panics when the body is not a key
Handle(serviceMethod, s, body, d) ==
    CASE serviceMethod = "get" ->
           IF body.t # "K" THEN Panic(d)
           ELSE LET r == Get(d, body.key) IN Return(IntValue(r.v), r.err, d)
      [] serviceMethod = "delete" ->
           IF body.t # "K" THEN Panic(d)
           ELSE LET r == Delete(d, body.key) IN Return(IntValue(r.v), r.err, d)
      [] serviceMethod = "put" ->
           IF body.t = "KVP"
           THEN LET r == Put(d, body.key, body.val) IN Return(NilValue, r.err, r.d)
           ELSE Return(NilValue, ErrInvalidArgs, d)
      [] OTHER -> Panic(d)

\* ------------------------------------------------------------- primitives
ChanSendEarlyBlock(buf, closed, cap) ==
    IF closed THEN "panic" ELSE IF Len(buf) < cap - 1 THEN "ok" ELSE "block"
ChanSendClosedBlocks(buf, closed, cap) ==
    IF closed THEN "block" ELSE IF Len(buf) < cap THEN "ok" ELSE "block"
ChanSendNoBlock(buf, closed, cap) == IF closed THEN "panic" ELSE "ok"
\* a send on a buffered channel: panics when closed, blocks when full
ChanSend(buf, closed, cap) ==
    IF closed THEN "panic" ELSE IF Len(buf) < cap THEN "ok" ELSE "block"

NoCatch(info) == [recovered |-> FALSE, err |-> NoErr]
\* tryCatch: the deferred recover turns the panic value into an error
tryCatch(info) == [recovered |-> TRUE, err |-> info]

ShutdownOnly(sh, cl) == sh
\* the check rpc.Client.send makes under client.mutex before registering
ShutdownCheck(sh, cl) == sh \/ cl

TwoListenUnits == {"L1", "L2"}
\* Listen starts exactly one goroutine running serv.Listen(behaviour)
ListenUnits == {"L1"}

\* call.done(): a non-blocking send on the call's Done channel
Done(call, err) == [call EXCEPT !.Error = err, !.done = @ + 1]

SetCall(c, call) == [calls EXCEPT ![c] = call]

HeaderNoError(res, ok) == IF ~ok THEN EOF ELSE NoErr
HeaderUnexpectedEOF(res, ok) == IF ~ok THEN ErrUnexpectedEOF ELSE res.err
\* genServerCodec.ReadResponseHeader: the error it returns for what the
\* receive on c.responses produced: io.EOF when the channel is closed and
\* drained, else the handler's error itself (nil when there is none)
ReadResponseHeader(res, ok) == IF ~ok THEN EOF ELSE res.err

ReadBodyUntyped(res, body) ==
    IF res.v = NilValue THEN body
    ELSE IF body.kind # "ptr" THEN body
    ELSE IF body.null THEN body
    ELSE [body EXCEPT !.val = res.v.val]
\* genServerCodec.ReadResponseBody: the new content of the destination
ReadResponseBody(res, body) ==
    IF res.v = NilValue THEN body
    ELSE IF body.kind = "nil" THEN body
    ELSE IF body.kind # "ptr" THEN body
    ELSE IF body.elem # res.v.t THEN body
    ELSE IF body.null THEN body
    ELSE [body EXCEPT !.val = res.v.val]

\* genServerCodec.ReadResponseBody: `if c.current.result.Error != nil {
\* log.Fatal("must be unreachable") }` ends the program
MustBeUnreachable(res) == res.err # NoErr

\* genServerCodec.ReadResponseBody reaches `vbody.Elem().Set(...)` with a nil
\* pointer of the value's type: reflect panics in the input goroutine
SetPanics(res, body) ==
    /\ res.v # NilValue
    /\ body.kind = "ptr"
    /\ body.elem = res.v.t
    /\ body.null

ResponseNoSeq(req, r) ==
    [seq |-> 0, serviceMethod |-> req.serviceMethod, v |-> r.v, err |-> r.err]
\* the response genServerCodec.Listen builds from the request and from what
\* Handle returned
Response(req, r) ==
    [seq |-> req.seq, serviceMethod |-> req.serviceMethod, v |-> r.v, err |-> r.err]

NeverDrained(buf, closed) == FALSE
\* `req, ok := <-c.requests` yields ok = false: closed and nothing buffered
Drained(buf, closed) == Len(buf) = 0 /\ closed

ReceiveClosedFirst(buf, closed) ==
    IF closed THEN "closed" ELSE IF Len(buf) > 0 THEN "item" ELSE "block"
\* a receive on a buffered channel: the buffered items come first, also
\* after the close; then ok = false when closed; else the receiver blocks
Receive(buf, closed) ==
    IF Len(buf) > 0 THEN "item"
    ELSE IF Drained(buf, closed) THEN "closed" ELSE "block"

NeverClosing(cl) == FALSE
\* rpc.Client.Close: `if client.closing { return ErrShutdown }`
ClosingCheck(cl) == cl

NoRequest == [seq |-> NoSeq, serviceMethod |-> "", body |-> KeyBody("one")]
NoResponse == [seq |-> NoSeq, serviceMethod |-> "", v |-> NilValue, err |-> NoErr]

\* --------------------------------------------------------------- inputs
Input(api, op, body, reply) == [api |-> api, op |-> op, body |-> body, reply |-> reply]
\* what the producers of Spec submit: non-blocking Casts
Inputs ==
    { Input("Cast", "get", KeyBody("one"), PtrReply("int")),
      Input("Cast", "delete", KeyBody("one"), PtrReply("int")),
      Input("Cast", "put", PairBody("one", 7), NilReply),
      Input("Cast", "%", KeyBody("one"), NilReply) }

\* what the producers of CallSpec submit: blocking Calls
CallInputs ==
    { Input("Call", "get", KeyBody("one"), PtrReply("int")),
      Input("Call", "delete", KeyBody("one"), PtrReply("int")),
      Input("Call", "put", PairBody("one", 7), NilReply) }

\* what the producers of HangSpec submit
HangInputs ==
    { Input("Cast", "delete", KeyBody("one"), PtrReply("int")),
      Input("Cast", "put", PairBody("one", 7), NilReply) }

\* ------------------------------------------------------------------ Init
InitWith(d) ==
    /\ calls = <<>>
    /\ pc = [p \in Producers \cup ListenUnits |-> "idle"]
    /\ cur = [p \in Producers \cup ListenUnits |-> 0]
    /\ reqMutex = None
    /\ seq = 0
    /\ pending = {}
    /\ closing = FALSE
    /\ shutdown = FALSE
    /\ requests = <<>>
    /\ reqClosed = FALSE
    /\ responses = <<>>
    /\ respClosed = FALSE
    /\ current = NoResponse
    /\ lpc = [u \in ListenUnits |-> "recv"]
    /\ lreq = [u \in ListenUnits |-> NoRequest]
    /\ lres = [u \in ListenUnits |-> NoResponse]
    /\ store = d
    /\ ipc = "read"
    /\ ierr = NoErr
    /\ cpc = [c \in AllClosers |-> "idle"]
    /\ closeRet = [c \in AllClosers |-> None]
    /\ crashed = FALSE
    /\ handled = [s \in {} |-> NoResponse]
    /\ faulted = {}
    /\ logged = 0
    /\ inflight = {}
    /\ emitted = <<>>
    /\ dequeued = <<>>
    /\ stalled = {}

\* newGenServer over a handler with an empty dict
Init == InitWith(EmptyStore)

\* ---------------------------------------------------------------- helpers
CallIds == 1..Len(calls)
CallOf(s) == CHOOSE c \in CallIds : calls[c].seq = s
NewCall(p, inp, s) ==
    [owner |-> p, api |-> inp.api, op |-> inp.op, body |-> inp.body,
     reply |-> inp.reply, seq |-> s, Error |-> NoErr, done |-> 0,
     afterClose |-> \E c \in AllClosers : closeRet[c] # None,
     got |-> NilValue]
SameSeq(s) == s
\* rpc.Client.send: `seq := client.seq; client.seq++` under client.mutex
NextSeq(s) == s + 1
AfterSend(api) == IF api = "Call" THEN "wait" ELSE "idle"

\* ------------------------------------------------------ producers: Cast/Call
\* genServer.Cast / genServer.Call -> rpc.Client.Go -> rpc.Client.send, up to
\* the registration of the call: lock reqMutex, then under client.mutex either
\* fail with ErrShutdown or take a sequence number and register the call.
CastBegin(p, inp, max) ==
    /\ ~crashed
    /\ pc[p] = "idle"
    /\ Len(calls) < max
    /\ reqMutex = None
    /\ cur' = [cur EXCEPT ![p] = Len(calls) + 1]
    /\ IF ShutdownCheck(shutdown, closing)
       THEN /\ calls' = Append(calls, Done(NewCall(p, inp, NoSeq), ErrShutdown))
            /\ pc' = [pc EXCEPT ![p] = AfterSend(inp.api)]
            /\ UNCHANGED <<reqMutex, seq, pending>>
       ELSE /\ calls' = Append(calls, NewCall(p, inp, seq))
            /\ seq' = NextSeq(seq)
            /\ pending' = pending \cup {seq}
            /\ reqMutex' = p
            /\ pc' = [pc EXCEPT ![p] = "write"]
    /\ UNCHANGED <<closing, shutdown, chanVars, loopVars, inputVars, closeVars,
                   crashed, histVars>>

\* genServerCodec.WriteRequest called by rpc.Client.send with reqMutex held,
\* and the rest of send: on an error the call is removed from pending and
\* completed with that error; reqMutex is released on return.
WriteRequest(p) ==
    /\ ~crashed
    /\ pc[p] = "write"
    /\ LET c == cur[p]
           call == calls[c]
           out == ChanSend(requests, reqClosed, InCap)
           caught == tryCatch(SendOnClosed)
       IN  /\ out # "block"
           /\ IF out = "ok"
              THEN /\ requests' = Append(requests,
                         [seq |-> call.seq, serviceMethod |-> call.op, body |-> call.body])
                   /\ pc' = [pc EXCEPT ![p] = AfterSend(call.api)]
                   /\ reqMutex' = None
                   /\ UNCHANGED <<calls, pending, crashed>>
              ELSE IF caught.recovered
              THEN /\ pending' = pending \ {call.seq}
                   /\ calls' = IF call.seq \in pending
                               THEN SetCall(c, Done(call, caught.err))
                               ELSE calls
                   /\ pc' = [pc EXCEPT ![p] = AfterSend(call.api)]
                   /\ reqMutex' = None
                   /\ UNCHANGED <<requests, crashed>>
              ELSE /\ crashed' = TRUE
                   /\ UNCHANGED <<calls, pending, pc, reqMutex, requests>>
    /\ UNCHANGED <<cur, seq, closing, shutdown, reqClosed, responses, respClosed,
                   loopVars, inputVars, closeVars, histVars>>

\* rpc.Client.Call: `<-call.Done` returns once the call has been completed
CallReturn(p) ==
    /\ ~crashed
    /\ pc[p] = "wait"
    /\ calls[cur[p]].done > 0
    /\ pc' = [pc EXCEPT ![p] = "idle"]
    /\ UNCHANGED <<calls, cur, reqMutex, clientVars, chanVars, loopVars,
                   inputVars, closeVars, crashed, histVars>>

\* ------------------------------------------------------------ dispatch loop
\* genServerCodec.Listen: `req, ok := <-c.requests`
ListenRecv(u) ==
    /\ ~crashed
    /\ lpc[u] = "recv"
    /\ Receive(requests, reqClosed) # "block"
    /\ IF Receive(requests, reqClosed) = "item"
       THEN /\ lreq' = [lreq EXCEPT ![u] = Head(requests)]
            /\ requests' = Tail(requests)
            /\ dequeued' = Append(dequeued, Head(requests).seq)
            /\ lpc' = [lpc EXCEPT ![u] = "handle"]
       ELSE /\ lpc' = [lpc EXCEPT ![u] = "exited"]
            /\ UNCHANGED <<lreq, requests, dequeued>>
    /\ UNCHANGED <<calls, pc, cur, reqMutex, clientVars, reqClosed, responses,
                   respClosed, lres, store, inputVars, closeVars, crashed,
                   handled, faulted, logged, inflight, emitted, stalled>>

\* genServerCodec.Listen: `v, err := behaviour.Handle(...)`, called outside
\* tryCatch: a panic of Handle is not recovered and ends the program
ListenHandle(u) ==
    /\ ~crashed
    /\ lpc[u] = "handle"
    /\ LET req == lreq[u]
           r == Handle(req.serviceMethod, req.seq, req.body, store)
       IN  IF r.panic
           THEN /\ crashed' = TRUE
                /\ faulted' = faulted \cup {req.seq}
                /\ UNCHANGED <<lpc, lres, store, handled>>
           ELSE /\ lres' = [lres EXCEPT ![u] = Response(req, r)]
                /\ store' = r.d
                /\ lpc' = [lpc EXCEPT ![u] = "respond"]
                /\ handled' = [s \in DOMAIN handled \cup {req.seq} |->
                                 IF s = req.seq THEN lres'[u] ELSE handled[s]]
                /\ UNCHANGED <<crashed, faulted>>
    /\ UNCHANGED <<calls, pc, cur, reqMutex, clientVars, chanVars, lreq,
                   inputVars, closeVars, logged, inflight, emitted, dequeued,
                   stalled>>

\* genServerCodec.Listen: `c.responses <- response{...}` inside tryCatch; a
\* send on the closed channel is recovered and logged
ListenRespond(u) ==
    /\ ~crashed
    /\ lpc[u] = "respond"
    /\ LET out == ChanSend(responses, respClosed, OutCap)
           caught == tryCatch(SendOnClosed)
       IN  /\ out # "block"
           /\ IF out = "ok"
              THEN /\ responses' = Append(responses, lres[u])
                   /\ emitted' = Append(emitted, lres[u])
                   /\ lpc' = [lpc EXCEPT ![u] = "recv"]
                   /\ UNCHANGED <<crashed, logged>>
              ELSE IF caught.recovered
              THEN /\ logged' = logged + 1
                   /\ lpc' = [lpc EXCEPT ![u] = "recv"]
                   /\ UNCHANGED <<responses, crashed, emitted>>
              ELSE /\ crashed' = TRUE
                   /\ UNCHANGED <<responses, lpc, logged, emitted>>
    /\ UNCHANGED <<calls, pc, cur, reqMutex, clientVars, requests, reqClosed,
                   respClosed, lreq, lres, store, inputVars, closeVars,
                   handled, faulted, inflight, dequeued, stalled>>

\* ------------------------------------------------- client input goroutine
\* One round of rpc.Client.input: genServerCodec.ReadResponseHeader, then
\* (only when it returned no error) the lookup of the pending call,
\* genServerCodec.ReadResponseBody and call.done().  ReadResponseHeader
\* returns the handler's error itself, and any error ends the input loop.
\* A panic of ReadResponseBody is not recovered and ends the program.
InputRead ==
    /\ ~crashed
    /\ ipc = "read"
    /\ (Len(responses) = 0) => respClosed
    /\ LET ok == Len(responses) > 0
           res == IF ok THEN Head(responses) ELSE NoResponse
           err == ReadResponseHeader(res, ok)
       IN  /\ responses' = IF ok THEN Tail(responses) ELSE responses
           /\ current' = IF ok THEN res ELSE current
           /\ IF err # NoErr
              THEN /\ ierr' = err
                   /\ ipc' = "terminate"
                   /\ UNCHANGED <<calls, pending, crashed>>
              ELSE /\ pending' = pending \ {res.seq}
                   /\ IF MustBeUnreachable(res)
                      THEN crashed' = TRUE /\ UNCHANGED calls
                      ELSE IF res.seq \in pending
                      THEN LET c == CallOf(res.seq) IN
                           IF SetPanics(res, calls[c].reply)
                           THEN crashed' = TRUE /\ UNCHANGED calls
                           ELSE /\ calls' = SetCall(c, Done([calls[c] EXCEPT !.reply =
                                        ReadResponseBody(res, calls[c].reply)], NoErr))
                                /\ UNCHANGED crashed
                      ELSE UNCHANGED <<calls, crashed>>
                   /\ UNCHANGED <<ierr, ipc>>
    /\ UNCHANGED <<pc, cur, reqMutex, seq, closing, shutdown, requests,
                   reqClosed, respClosed, loopVars, closeVars, histVars>>

\* the error rpc.Client.input gives the pending calls when its loop ends
TerminateErr(err, cl) ==
    IF err = EOF THEN (IF cl THEN ErrShutdown ELSE ErrUnexpectedEOF) ELSE err

\* End of rpc.Client.input: with reqMutex and client.mutex held, set
\* shutdown and complete every call still pending with the loop's error.
InputTerminate ==
    /\ ~crashed
    /\ ipc = "terminate"
    /\ reqMutex = None
    /\ shutdown' = TRUE
    /\ calls' = [c \in CallIds |->
                   IF calls[c].seq \in pending
                   THEN Done(calls[c], TerminateErr(ierr, closing))
                   ELSE calls[c]]
    /\ ipc' = "dead"
    /\ UNCHANGED <<pc, cur, reqMutex, seq, pending, closing, chanVars, loopVars,
                   ierr, current, closeVars, crashed, histVars>>

\* -------------------------------------------------------------------- Close
\* genServer.Close -> rpc.Client.Close: under client.mutex, return
\* ErrShutdown when already closing, else set closing.  The step leaves
\* `stalled` to the specification, which may record the blocked producers.
CloseBegin(k) ==
    /\ ~crashed
    /\ cpc[k] = "idle"
    /\ IF ClosingCheck(closing)
       THEN /\ cpc' = [cpc EXCEPT ![k] = "returned"]
            /\ closeRet' = [closeRet EXCEPT ![k] = ErrShutdown]
            /\ UNCHANGED closing
       ELSE /\ closing' = TRUE
            /\ cpc' = [cpc EXCEPT ![k] = "close_requests"]
            /\ UNCHANGED closeRet
    /\ UNCHANGED <<calls, pc, cur, reqMutex, seq, pending, shutdown, chanVars,
                   loopVars, inputVars, crashed, handled, faulted, logged,
                   inflight, emitted, dequeued>>

\* genServerCodec.Close: close(c.requests); closing a closed channel panics
CloseRequests(k) ==
    /\ ~crashed
    /\ cpc[k] = "close_requests"
    /\ IF reqClosed
       THEN crashed' = TRUE /\ UNCHANGED <<reqClosed, cpc>>
       ELSE /\ reqClosed' = TRUE
            /\ cpc' = [cpc EXCEPT ![k] = "close_responses"]
            /\ UNCHANGED crashed
    /\ UNCHANGED <<calls, pc, cur, reqMutex, clientVars, requests, responses,
                   respClosed, loopVars, inputVars, closeRet, histVars>>

\* genServerCodec.Close: close(c.responses); return nil
CloseResponses(k) ==
    /\ ~crashed
    /\ cpc[k] = "close_responses"
    /\ IF respClosed
       THEN crashed' = TRUE /\ UNCHANGED <<respClosed, cpc, closeRet, inflight>>
       ELSE /\ respClosed' = TRUE
            /\ cpc' = [cpc EXCEPT ![k] = "returned"]
            /\ closeRet' = [closeRet EXCEPT ![k] = NoErr]
            /\ inflight' = {c \in CallIds :
                              /\ calls[c].seq \in pending
                              /\ calls[c].done = 0
                              /\ \A p \in Producers : ~(pc[p] = "write" /\ cur[p] = c)}
            /\ UNCHANGED crashed
    /\ UNCHANGED <<calls, pc, cur, reqMutex, clientVars, requests, reqClosed,
                   responses, loopVars, inputVars, handled, faulted, logged,
                   emitted, dequeued, stalled>>

\* ------------------------------------------------------------ specifications
Cast == \E p \in Producers, inp \in Inputs : CastBegin(p, inp, MaxCalls)
Write == \E p \in Producers : WriteRequest(p)
Wait == \E p \in Producers : CallReturn(p)
Recv == \E u \in ListenUnits : ListenRecv(u)
Handling == \E u \in ListenUnits : ListenHandle(u)
Respond == \E u \in ListenUnits : ListenRespond(u)
CloseCall == \E k \in Closers : CloseBegin(k) /\ UNCHANGED stalled
CloseReq == \E k \in Closers : CloseRequests(k)
CloseResp == \E k \in Closers : CloseResponses(k)

Next ==
    \/ Cast
    \/ Write
    \/ Recv
    \/ Handling
    \/ Respond
    \/ InputRead
    \/ InputTerminate
    \/ CloseCall
    \/ CloseReq
    \/ CloseResp

Spec == Init /\ [][Next]_vars

\* producers making blocking Calls on a process that nobody closes
CallCast == \E p \in Producers, inp \in CallInputs : CastBegin(p, inp, MaxCalls)
CallNext ==
    \/ CallCast
    \/ Write
    \/ Wait
    \/ Recv
    \/ Handling
    \/ Respond
    \/ InputRead
    \/ InputTerminate

CallSpec == Init /\ [][CallNext]_vars

\* producers making Casts on a process that nobody closes
HangCast == \E p \in Producers, inp \in HangInputs : CastBegin(p, inp, MaxHangCalls)
HangNext ==
    \/ HangCast
    \/ Write
    \/ Recv
    \/ Handling
    \/ Respond
    \/ InputRead
    \/ InputTerminate

HangSpec == Init /\ [][HangNext]_vars

\* producers waiting for their Casts and reading the destination with
\* Reply[T], on a process over NewDict(KeyValuePair{"one", -1})
OneStore == [k \in Keys |-> IF k = "one" THEN -1 ELSE Absent]
Types == {"int", "string"}
ReplyInputs ==
    { Input("Cast", "get", KeyBody("one"), NilReply),
      Input("Cast", "get", KeyBody("one"), PtrReply("int")),
      Input("Cast", "get", KeyBody("one"), PtrReply("string")),
      Input("Cast", "get", KeyBody("one"), ValReply("int")),
      Input("Cast", "get", KeyBody("one"), NilPtrReply("int")),
      Input("Cast", "get", KeyBody("two"), PtrReply("int")),
      Input("Cast", "put", PairBody("two", 7), PtrReply("int")) }

\* Reply[T](call) == *(call.Reply.(*T)) on a call that completed without
\* error: the type assertion panics unless the destination is a *T, the
\* dereference panics on a nil pointer
ReplyRead(p, T) ==
    /\ ~crashed
    /\ pc[p] = "idle"
    /\ cur[p] # 0
    /\ LET c == cur[p]
           call == calls[c]
       IN  /\ call.done >= 1
           /\ call.Error = NoErr
           /\ call.got = NilValue
           /\ IF call.reply.kind = "ptr" /\ call.reply.elem = T /\ ~call.reply.null
              THEN /\ calls' = SetCall(c, [call EXCEPT !.got = [t |-> T, val |-> call.reply.val]])
                   /\ UNCHANGED crashed
              ELSE crashed' = TRUE /\ UNCHANGED calls
    /\ UNCHANGED <<pc, cur, reqMutex, clientVars, chanVars, loopVars, inputVars,
                   closeVars, histVars>>

ReplyCast == \E inp \in ReplyInputs : CastBegin("p1", inp, MaxCalls)
ReadReply == \E p \in Producers, T \in Types : ReplyRead(p, T)
ReplyNext ==
    \/ ReplyCast
    \/ Write
    \/ Recv
    \/ Handling
    \/ Respond
    \/ InputRead
    \/ InputTerminate
    \/ ReadReply

ReplySpec == InitWith(OneStore) /\ [][ReplyNext]_vars

\* producers making blocking Calls that leave the dict as it is, on a process
\* over NewDict(KeyValuePair{"one", -1}) that nobody closes
IdemInputs ==
    { Input("Call", "get", KeyBody("one"), PtrReply("int")),
      Input("Call", "get", KeyBody("two"), PtrReply("int")),
      Input("Call", "put", PairBody("one", 7), NilReply) }
IdemCast == \E p \in Producers, inp \in IdemInputs : CastBegin(p, inp, MaxCalls)
IdemNext ==
    \/ IdemCast
    \/ Write
    \/ Wait
    \/ Recv
    \/ Handling
    \/ Respond
    \/ InputRead
    \/ InputTerminate

IdemSpec == InitWith(OneStore) /\ [][IdemNext]_vars

\* producers making Casts while several units invoke Close
CloseInputs ==
    { Input("Cast", "get", KeyBody("one"), PtrReply("int")),
      Input("Cast", "put", PairBody("one", 7), NilReply) }
CloseCast == \E p \in Producers, inp \in CloseInputs : CastBegin(p, inp, MaxCloseCalls)
AnyCloseCall == \E k \in AllClosers : CloseBegin(k) /\ UNCHANGED stalled
AnyCloseReq == \E k \in AllClosers : CloseRequests(k)
AnyCloseResp == \E k \in AllClosers : CloseResponses(k)
CloseNext ==
    \/ CloseCast
    \/ Write
    \/ Recv
    \/ Handling
    \/ Respond
    \/ InputRead
    \/ InputTerminate
    \/ AnyCloseCall
    \/ AnyCloseReq
    \/ AnyCloseResp

CloseSpec == Init /\ [][CloseNext]_vars

\* producers making Casts whose Handle returns, one unit invoking Close, and
\* the goroutines of the dispatch loop and of Close scheduled fairly
LifeInputs ==
    { Input("Cast", "get", KeyBody("one"), PtrReply("int")),
      Input("Cast", "put", PairBody("one", 7), NilReply) }
LifeCast == \E p \in Producers, inp \in LifeInputs : CastBegin(p, inp, MaxLifeCalls)
LifeNext ==
    \/ LifeCast
    \/ Write
    \/ Recv
    \/ Handling
    \/ Respond
    \/ InputRead
    \/ InputTerminate
    \/ CloseCall
    \/ CloseReq
    \/ CloseResp

LifeSpec ==
    /\ Init /\ [][LifeNext]_vars
    /\ WF_vars(Recv) /\ WF_vars(Handling) /\ WF_vars(Respond)
    /\ WF_vars(CloseReq) /\ WF_vars(CloseResp)

\* producers making Casts whose Handle returns a value or an error, and one
\* unit invoking Close
MailInputs ==
    { Input("Cast", "get", KeyBody("one"), PtrReply("int")),
      Input("Cast", "put", PairBody("one", 7), NilReply) }
MailCast == \E p \in Producers, inp \in MailInputs : CastBegin(p, inp, MaxMailCalls)
MailNext ==
    \/ MailCast
    \/ Write
    \/ Recv
    \/ Handling
    \/ Respond
    \/ InputRead
    \/ InputTerminate
    \/ CloseCall
    \/ CloseReq
    \/ CloseResp

MailSpec == Init /\ [][MailNext]_vars

\* producers making Casts, one unit invoking Close with the producers that
\* are blocked in the enqueue at that moment recorded, and every goroutine
\* (producers, dispatch loop, input, Close) scheduled fairly
Blocked ==
    {c \in CallIds :
        /\ pc[calls[c].owner] = "write" /\ cur[calls[c].owner] = c
        /\ ChanSend(requests, reqClosed, InCap) = "block"}
ReleaseCast == \E p \in Producers, inp \in LifeInputs : CastBegin(p, inp, MaxReleaseCalls)
ObservedClose == \E k \in Closers : CloseBegin(k) /\ stalled' = Blocked
ReleaseNext ==
    \/ ReleaseCast
    \/ Write
    \/ Recv
    \/ Handling
    \/ Respond
    \/ InputRead
    \/ InputTerminate
    \/ ObservedClose
    \/ CloseReq
    \/ CloseResp

ReleaseSpec ==
    /\ Init /\ [][ReleaseNext]_vars
    /\ WF_vars(Write) /\ WF_vars(Recv) /\ WF_vars(Handling) /\ WF_vars(Respond)
    /\ WF_vars(InputRead) /\ WF_vars(InputTerminate)
    /\ WF_vars(CloseReq) /\ WF_vars(CloseResp)

\* a handler that embeds the GenServer of its own process and, for the
\* operation "self", makes a blocking Call get to it from inside Handle;
\* producers cast "self" and get, one unit invokes Close
SelfInputs ==
    { Input("Cast", "self", KeyBody("one"), NilReply),
      Input("Cast", "get", KeyBody("one"), PtrReply("int")) }
NestedInput == Input("Call", "get", KeyBody("one"), PtrReply("int"))

\* Handle of "self" begins: s.Call(...) -> rpc.Client.Go -> send, executed by
\* the dispatch loop's own goroutine
SelfCallBegin(u) ==
    /\ lpc[u] = "handle"
    /\ lreq[u].serviceMethod = "self"
    /\ cur[u] = 0
    /\ CastBegin(u, NestedInput, MaxSelfCalls + 1)

\* Handle of "self" returns what its Call returned
SelfHandleReturn(u) ==
    /\ ~crashed
    /\ lpc[u] = "handle"
    /\ lreq[u].serviceMethod = "self"
    /\ cur[u] # 0
    /\ pc[u] = "idle"
    /\ lres' = [lres EXCEPT ![u] =
                  Response(lreq[u], Return(NilValue, calls[cur[u]].Error, store))]
    /\ lpc' = [lpc EXCEPT ![u] = "respond"]
    /\ cur' = [cur EXCEPT ![u] = 0]
    /\ handled' = [s \in DOMAIN handled \cup {lreq[u].seq} |->
                     IF s = lreq[u].seq THEN lres'[u] ELSE handled[s]]
    /\ UNCHANGED <<calls, pc, reqMutex, clientVars, chanVars, lreq, store,
                   inputVars, closeVars, crashed, faulted, logged, inflight,
                   emitted, dequeued, stalled>>

SelfCast == \E p \in Producers, inp \in SelfInputs : CastBegin(p, inp, MaxSelfCalls)
PlainHandling ==
    \E u \in ListenUnits : lreq[u].serviceMethod # "self" /\ ListenHandle(u)
SelfBegin == \E u \in ListenUnits : SelfCallBegin(u)
SelfWrite == \E u \in ListenUnits : WriteRequest(u)
SelfWait == \E u \in ListenUnits : CallReturn(u)
SelfReturn == \E u \in ListenUnits : SelfHandleReturn(u)
SelfNext ==
    \/ SelfCast
    \/ Write
    \/ Recv
    \/ PlainHandling
    \/ SelfBegin
    \/ SelfWrite
    \/ SelfWait
    \/ SelfReturn
    \/ Respond
    \/ InputRead
    \/ InputTerminate
    \/ CloseCall
    \/ CloseReq
    \/ CloseResp

SelfSpec == Init /\ [][SelfNext]_vars

\* ------------------------------------------------------------------ claims
Completed(c) == calls[c].done >= 1
Handled(c) == calls[c].seq \in DOMAIN handled
\* what Handle returned for the request of call c
Result(c) == handled[calls[c].seq]
\* the destination as the caller passed it
OrigReply(c) == [calls[c].reply EXCEPT !.val = ZeroValue]
\* the call completed with what Handle returned for its own request
OwnResult(c) ==
    /\ Handled(c)
    /\ calls[c].Error = Result(c).err
    /\ Result(c).err = NoErr => calls[c].reply = ReadResponseBody(Result(c), OrigReply(c))

\* C1 (HangSpec: Casts, handler successes and errors, nobody closes): no
\* call is signalled done more than once, and when no unit can take a step
\* any more every call that was issued has been signalled done.
C1_EveryCallCompletesOnce ==
    /\ \A c \in CallIds : calls[c].done <= 1
    /\ (~ENABLED HangNext) => \A c \in CallIds : calls[c].done = 1

\* C2: a panic of Handle on a request does not end the dispatch loop: after
\* a Handle has panicked the program is still running.
C2_FaultContained == \A s \in faulted : ~crashed

\* C3: a call that completed with a handler error got the error Handle
\* returned for its own request.
C3_ErrorOnlyOnItsCall ==
    \A c \in CallIds :
        (Completed(c) /\ calls[c].Error \in HandlerErrors)
            => (Handled(c) /\ Result(c).err = calls[c].Error)

\* C4 (CallSpec: blocking Calls on a process nobody closes): when a producer's
\* Call delete k failed with the handler's "key does not exist" and its next
\* two Calls are put {k,v} and get k, with no call of anyone in between, the
\* put returns no error and the get returns no error and writes v.
C4_UsableAfterHandlerError ==
    \A i \in CallIds :
        LET j == i + 1
            k == i + 2
        IN  ( /\ k \in CallIds
              /\ calls[i].owner = calls[j].owner /\ calls[j].owner = calls[k].owner
              /\ calls[i].op = "delete" /\ calls[j].op = "put" /\ calls[k].op = "get"
              /\ calls[i].body.key = calls[j].body.key
              /\ calls[k].body.key = calls[j].body.key
              /\ Completed(i) /\ Handled(i) /\ Result(i).err = ErrKeyMissing
              /\ calls[i].Error = ErrKeyMissing
              /\ Completed(k)
              /\ ~closing )
            => ( /\ calls[j].Error = NoErr
                 /\ calls[k].Error = NoErr
                 /\ calls[k].reply.val = calls[j].body.val )

\* C5: on a process that Close was not invoked on, a completed call whose
\* request Handle answered with an error carries exactly that error.
C5_HandlerErrorVerbatim ==
    \A c \in CallIds :
        (~closing /\ Completed(c) /\ Handled(c) /\ Result(c).err # NoErr)
            => calls[c].Error = Result(c).err

\* C6: a Cast made after a Close has returned fails at once with
\* ErrShutdown: it is completed exactly once, never registered (so never
\* enqueued nor handled), never reaches the enqueue and its destination
\* keeps its content.
C6_CastAfterCloseFails ==
    \A c \in CallIds :
        calls[c].afterClose =>
            /\ calls[c].Error = ErrShutdown
            /\ calls[c].done = 1
            /\ calls[c].seq = NoSeq
            /\ calls[c].reply = OrigReply(c)
            /\ \A p \in Producers : ~(pc[p] = "write" /\ cur[p] = c)
            /\ \A i \in 1..Len(requests) : requests[i].seq # calls[c].seq
C6_Witness ==
    \E c \in CallIds : calls[c].afterClose /\ calls[c].done = 1 /\ ipc = "read"

C8_EnqueueFailureCaptured ==
    [][\A p \in Producers :
          ( /\ pc[p] = "write" /\ reqClosed /\ ~crashed
            /\ \/ pc'[p] # "write"
               \/ crashed' /\ faulted' = faulted )
          => LET c == cur[p] IN
             /\ ~crashed'
             /\ calls'[c].Error = SendOnClosed
             /\ calls'[c].done = 1
             /\ calls[c].seq \in pending /\ calls[c].seq \notin pending'
             /\ reqMutex' = None
             /\ \A d \in CallIds \ {c} : calls'[d] = calls[d]]_vars
C8_Witness ==
    \E c \in CallIds :
        /\ calls[c].Error = SendOnClosed /\ calls[c].done = 1
        /\ calls[c].seq \notin pending
        /\ pc[calls[c].owner] = "idle"
        /\ ~crashed

\* C9: a call that was pending with its request enqueued when Close closed
\* the response channel completes either with the result Handle returned
\* for it (its buffered response was delivered) or with ErrShutdown.
C9_ReleasedWithShutdown ==
    \A c \in inflight :
        Completed(c) => (calls[c].Error = ErrShutdown \/ OwnResult(c))

\* C10: at most one Handle is executing at any moment, and the handler's
\* state changes only in the step of a dispatch loop unit that executes
\* Handle, however the producers and closers interleave.
Handling1 == Cardinality({u \in ListenUnits : lpc[u] = "handle"}) <= 1
C10_SingleWriter ==
    /\ []Handling1
    /\ [][store' # store =>
            \E u \in ListenUnits : lpc[u] = "handle" /\ lpc'[u] = "respond"]_vars
C10_Witness ==
    /\ store # EmptyStore
    /\ \E u \in ListenUnits : lpc[u] = "handle"
    /\ \E p \in Producers : pc[p] = "write"
    /\ \E k \in Closers : cpc[k] = "close_requests"

\* the request of call c was enqueued on the request channel
Enqueued(c) ==
    /\ calls[c].seq # NoSeq
    /\ calls[c].Error # SendOnClosed
    /\ ~(pc[calls[c].owner] = "write" /\ cur[calls[c].owner] = c)

Decodes(c) ==
    /\ Handled(c)
    /\ Result(c).err = NoErr
    /\ Result(c).v # NilValue
    /\ calls[c].reply.kind # "nil"
    /\ calls[c].reply.kind = "ptr"
    /\ calls[c].reply.elem = Result(c).v.t

\* C12 (ReplySpec): a call whose response the input loop took with no error
\* is completed, and a completed call has its destination overwritten with
\* the value Handle returned for it exactly when Handle returned no error
\* and a non-nil value and the destination is a non-nil pointer to the
\* value's type; otherwise the destination is as the caller passed it and
\* the call carries no error other than the one Handle returned for it.
C12_ReplyDecoding ==
    \A c \in CallIds :
        /\ (current.seq = calls[c].seq /\ current.err = NoErr) => Completed(c)
        /\ Completed(c) =>
              IF Decodes(c)
              THEN calls[c].reply.val = Result(c).v.val /\ calls[c].Error = NoErr
              ELSE /\ calls[c].reply = OrigReply(c)
                   /\ Handled(c) => calls[c].Error = Result(c).err

\* C13 (CallSpec: blocking Calls, nobody closes): when a producer's Call
\* put {k,v} returned without error and nobody deletes k, a later Call get k
\* of that producer with a pointer to an int returns no error and writes v.
C13_PutThenGet ==
    \A i, j \in CallIds :
        ( /\ i < j /\ calls[i].owner = calls[j].owner
          /\ calls[i].op = "put" /\ Completed(i) /\ calls[i].Error = NoErr
          /\ calls[j].op = "get" /\ calls[j].body.key = calls[i].body.key
          /\ OrigReply(j) = PtrReply("int")
          /\ Completed(j)
          /\ \A d \in CallIds : calls[d].op # "delete" )
        => ( /\ calls[j].Error = NoErr
             /\ calls[j].reply.val = calls[i].body.val )

\* C14 (IdemSpec: the dict stays as constructed): two completed Calls get k
\* of the same key have the same error status (both without error or both
\* with one) and leave the same value in their destinations.
C14_GetIdempotent ==
    \A i, j \in CallIds :
        ( /\ i < j
          /\ calls[i].op = "get" /\ calls[j].op = "get"
          /\ calls[i].body.key = calls[j].body.key
          /\ Completed(i) /\ Completed(j)
          /\ store = OneStore )
        => ( /\ (calls[i].Error = NoErr) <=> (calls[j].Error = NoErr)
             /\ calls[i].reply.val = calls[j].reply.val )

\* the closers that got past the closing check of rpc.Client.Close
Winners ==
    {k \in AllClosers : cpc[k] \in {"close_requests", "close_responses"}
                        \/ closeRet[k] = NoErr}

\* C15 (CloseSpec: two units invoke Close, sequentially or concurrently):
\* no channel is closed twice (no closer is about to close a channel that is
\* closed, and the program never ends in the panic of a double close); at
\* most one Close closes the channels and returns no error, after closing
\* both; every other Close returns ErrShutdown in a step that leaves the
\* channels alone.
C15_ClosedOnce ==
    /\ [](/\ ~crashed
          /\ Cardinality(Winners) <= 1
          /\ \A k \in AllClosers :
                /\ cpc[k] = "close_requests" => ~reqClosed
                /\ cpc[k] = "close_responses" => (reqClosed /\ ~respClosed)
                /\ closeRet[k] = NoErr => (reqClosed /\ respClosed)
                /\ cpc[k] = "returned" => closeRet[k] \in {NoErr, ErrShutdown}
                /\ closeRet[k] = ErrShutdown => Winners # {})
    /\ [][\A k \in AllClosers :
             (closeRet[k] = None /\ closeRet'[k] = ErrShutdown)
                => UNCHANGED chanVars]_vars
C15_Witness ==
    /\ \E k, l \in AllClosers : closeRet[k] = NoErr /\ closeRet[l] = ErrShutdown
    /\ reqClosed /\ respClosed
    /\ \E c \in CallIds : calls[c].Error = NoErr /\ Completed(c)

\* C16: a Cast that is not rejected takes the next sequence number and
\* registers the call as pending; while the request channel is open and has
\* a free slot its enqueue can proceed whatever the dispatch loop is doing,
\* and the step of the enqueue appends the request with the call's seq and
\* returns to the producer with the call still pending and not completed,
\* without any step of the dispatch loop.
C16_CastNonBlocking ==
    /\ [](\A p \in Producers :
             (pc[p] = "write" /\ ~crashed /\ ~reqClosed /\ Len(requests) < InCap)
                => ENABLED WriteRequest(p))
    /\ [][\A p \in Producers :
             /\ (pc[p] = "idle" /\ pc'[p] = "write")
                   => /\ calls'[cur'[p]].seq = seq
                      /\ seq' = seq + 1
                      /\ pending' = pending \cup {seq}
                      /\ seq \notin pending
             /\ (pc[p] = "write" /\ pc'[p] # "write" /\ ~reqClosed)
                   => LET call == calls[cur[p]] IN
                      /\ requests' = Append(requests,
                            [seq |-> call.seq, serviceMethod |-> call.op,
                             body |-> call.body])
                      /\ call.seq \in pending'
                      /\ calls' = calls /\ call.done = 0
                      /\ pc'[p] = "idle"
                      /\ UNCHANGED <<loopVars, dequeued, handled>>]_vars
C16_Witness ==
    \E c \in CallIds :
        /\ pc[calls[c].owner] = "idle"
        /\ calls[c].done = 0 /\ calls[c].seq \in pending
        /\ \E i \in 1..Len(requests) : requests[i].seq = calls[c].seq
        /\ \E u \in ListenUnits : lpc[u] = "respond" /\ Len(responses) = OutCap

\* C17 as stated (ReplySpec): when Reply[T] returned on a call that completed
\* without error, what it returned is the value Handle returned for the call.
C17_ReplyIsHandlerValue ==
    \A c \in CallIds :
        calls[c].got # NilValue => (Handled(c) /\ calls[c].got = Result(c).v)

\* C17 amended: what Reply[T] returned is the content of the destination; it
\* is the value Handle returned for the call when that value is a non-nil T,
\* and the content the destination had when the call was made otherwise.
C17_ReplyValue ==
    \A c \in CallIds :
        calls[c].got # NilValue =>
            /\ Handled(c) /\ Result(c).err = NoErr
            /\ calls[c].got.t = calls[c].reply.elem
            /\ calls[c].got.val = calls[c].reply.val
            /\ IF Result(c).v # NilValue /\ Result(c).v.t = calls[c].got.t
               THEN calls[c].got = Result(c).v
               ELSE calls[c].got.val = ZeroValue
C17_Witness ==
    \E c, d \in CallIds :
        /\ calls[c].got = IntValue(-1) /\ Result(c).v = IntValue(-1)
        /\ calls[d].got = [t |-> "string", val |-> ZeroValue]

LoopExited == \A u \in ListenUnits : lpc[u] = "exited"
\* Running = 0, Closing = 1 (Close invoked), Closed = 2 (dispatch loop exited)
Phase == IF ~closing THEN 0 ELSE IF LoopExited THEN 2 ELSE 1

\* C18 (LifeSpec: every Handle returns, the loop and Close are scheduled
\* fairly): once Close has been invoked the dispatch loop eventually exits;
\* the phase never decreases; the loop exits only after Close was invoked;
\* after Close was invoked no call is registered, and after Close closed the
\* request channel no request is enqueued.
C18_Lifecycle ==
    /\ closing ~> LoopExited
    /\ [](LoopExited => closing)
    /\ [][Phase' >= Phase]_vars
    /\ [][closing => (seq' = seq /\ pending' \subseteq pending)]_vars
    /\ [][reqClosed => Len(requests') <= Len(requests)]_vars
C18_Witness ==
    /\ LoopExited
    /\ closing
    /\ logged > 0
    /\ \E c \in CallIds : Completed(c) /\ calls[c].Error = NoErr

\* how many of the requests buffered or already received carry seq s
Copies(s) ==
    Cardinality({i \in 1..Len(requests) : requests[i].seq = s})
        + Cardinality({i \in 1..Len(dequeued) : dequeued[i] = s})

\* C19: the request buffer never holds more than InCap requests and the
\* response buffer never more than OutCap responses; a producer whose
\* enqueue meets a full open request channel cannot proceed (its step is
\* enabled again exactly when there is space or the channel is closed);
\* every request that was enqueued is, exactly once, either still in the
\* buffer or received by the dispatch loop.
C19_Backpressure ==
    /\ Len(requests) <= InCap
    /\ Len(responses) <= OutCap
    /\ \A p \in Producers :
          (pc[p] = "write" /\ ~crashed) =>
              ((Len(requests) = InCap /\ ~reqClosed) <=> ~ENABLED WriteRequest(p))
    /\ \A c \in CallIds : Enqueued(c) => Copies(calls[c].seq) = 1
C19_Witness ==
    /\ \E p \in Producers : pc[p] = "write" /\ ~ENABLED WriteRequest(p)
    /\ Len(requests) = InCap /\ ~reqClosed /\ ~crashed
    /\ \E u \in ListenUnits : lpc[u] = "handle"

\* the loop is through with the i-th request it received
Processed(i) ==
    \A u \in ListenUnits :
        ~(lpc[u] \in {"handle", "respond"} /\ lreq[u].seq = dequeued[i])
Pos(s) == CHOOSE i \in 1..Len(dequeued) : dequeued[i] = s
InHand ==
    Cardinality({u \in ListenUnits :
                   lpc[u] \in {"handle", "respond"} /\ lreq[u].seq \notin faulted})

Entered == dequeued \o [i \in 1..Len(requests) |-> requests[i].seq]
Increasing(q) == \A i, j \in 1..Len(q) : i < j => q[i] < q[j]

\* C21 (MailSpec: two producers and a closer): the registered calls carry
\* distinct sequence numbers that increase in the order of submission and
\* lie below the client's counter; the requests entered the request
\* channel, and the responses the response channel, in strictly increasing
\* sequence order, so both buffers hold increasing sequence numbers.
C21_SeqOrder ==
    /\ \A i, j \in CallIds :
          (i < j /\ calls[i].seq # NoSeq /\ calls[j].seq # NoSeq)
             => calls[i].seq < calls[j].seq
    /\ \A c \in CallIds : calls[c].seq < seq
    /\ Increasing(Entered)
    /\ Increasing([i \in 1..Len(emitted) |-> emitted[i].seq])
    /\ Increasing([i \in 1..Len(requests) |-> requests[i].seq])
    /\ Increasing([i \in 1..Len(responses) |-> responses[i].seq])
C21_Witness ==
    /\ Len(Entered) >= 3
    /\ Len(emitted) >= 2
    /\ \E i, j \in CallIds : calls[i].owner # calls[j].owner /\ Enqueued(i) /\ Enqueued(j)

\* C22 (MailSpec): a completed call whose destination was written holds the
\* value Handle returned for its own request, and a completed call carrying
\* an error value of the handler carries the error Handle returned for its
\* own request.
C22_Correlation ==
    \A c \in CallIds :
        Completed(c) =>
            /\ calls[c].reply # OrigReply(c)
                  => /\ Handled(c) /\ Result(c).err = NoErr
                     /\ calls[c].reply = ReadResponseBody(Result(c), OrigReply(c))
            /\ calls[c].Error \in HandlerErrors
                  => /\ Handled(c)
                     /\ Result(c).err = calls[c].Error
                     /\ current.seq = calls[c].seq

\* C23 (LifeSpec): the step in which the dispatch loop's enqueue of a
\* response meets the closed response channel only logs: the program keeps
\* running, the loop returns to its receive, and nothing but the log
\* changes; from there the loop goes on until it has received every
\* buffered request and exits on the drained closed request channel.
C23_EnqueueFailureLogged ==
    /\ [][\A u \in ListenUnits :
             (lpc[u] = "respond" /\ respClosed /\ ~crashed
              /\ (lpc'[u] # "respond" \/ crashed'))
                => /\ ~crashed'
                   /\ lpc'[u] = "recv"
                   /\ logged' = logged + 1
                   /\ UNCHANGED <<calls, pending, store, requests, responses,
                                  emitted, handled, shutdown>>]_vars
    /\ [](LoopExited => (reqClosed /\ Len(requests) = 0))
    /\ (\E u \in ListenUnits : lpc[u] = "respond" /\ respClosed)
          ~> (LoopExited /\ Len(requests) = 0)
C23_Witness ==
    /\ logged >= 2
    /\ LoopExited
    /\ Len(dequeued) = logged
    /\ ~crashed

AllHandled == \A c \in CallIds : Enqueued(c) => Handled(c)

\* C24 (LifeSpec): the dispatch loop does not exit before Handle has been
\* executed for every request that was enqueued, and once Close has been
\* invoked every enqueued request, those buffered at the Close included, is
\* eventually passed to Handle.
C24_CloseDoesNotCancel ==
    /\ [](LoopExited => AllHandled)
    /\ closing ~> (LoopExited /\ AllHandled)
C24_Witness ==
    \E c \in inflight :
        /\ calls[c].op = "put"
        /\ Completed(c) /\ calls[c].Error = ErrShutdown
        /\ Handled(c) /\ Result(c).err = NoErr
        /\ store[calls[c].body.key] = calls[c].body.val
        /\ LoopExited

InWrite(c) == pc[calls[c].owner] = "write" /\ cur[calls[c].owner] = c

C26_SelfCallStuck ==
    \A c \in CallIds :
        (calls[c].owner \in ListenUnits /\ ~closing)
            => /\ ~Completed(c)
               /\ lpc[calls[c].owner] = "handle"
               /\ lreq[calls[c].owner].serviceMethod = "self"

\* C27 (CallSpec): after a producer's Call delete k on a present key
\* completed without error with the stored value, and with no put made
\* after it other than the one observed, a later Call of that producer
\* completed while the client's input loop is alive is, for get k, failed
\* with "not found", and for put {k,v}, without error.
C27_DeleteRemoves ==
    \A i, j \in CallIds :
        ( /\ i < j /\ calls[i].owner = calls[j].owner
          /\ calls[i].op = "delete" /\ Completed(i) /\ calls[i].Error = NoErr
          /\ Handled(i) /\ calls[i].reply.val = Result(i).v.val
          /\ calls[j].body.key = calls[i].body.key
          /\ Completed(j) /\ Handled(j)
          /\ \A d \in CallIds : (d > i /\ d # j) => calls[d].op # "put"
          /\ ipc = "read" )
        => ( /\ calls[j].op = "get" => calls[j].Error = ErrNotFound
             /\ calls[j].op = "put" => calls[j].Error = NoErr )

\* C28 (MailSpec): the step of the input goroutine that takes a response
\* carrying a handler error stops at ReadResponseHeader: it ends the input
\* loop, completes no call and does not end the program; a response
\* without error leaves the loop running; so whenever the input loop is
\* running, the response ReadResponseBody last saw carries no error.
C28_Unreachable ==
    /\ [][Len(responses') < Len(responses) =>
             IF Head(responses).err # NoErr
             THEN ipc' = "terminate" /\ ierr' = Head(responses).err
                  /\ calls' = calls /\ ~crashed'
             ELSE ipc' = "read" /\ ~crashed']_vars
    /\ [](ipc = "read" => ~MustBeUnreachable(current))
C28_Witness ==
    /\ ipc = "terminate"
    /\ MustBeUnreachable(current)
    /\ ~crashed
    /\ \E c \in CallIds : Completed(c) /\ calls[c].Error = NoErr

====
